---------------------------- MODULE Spec2Model ----------------------------
(***************************************************************************)
(* State-machine model of the session client BkperAuth                     *)
(* (packages/auth/src/bkper-auth.ts).                                      *)
(*                                                                         *)
(* One BkperAuth instance is modelled.  Every JavaScript job (the          *)
(* synchronous part of a method, or one promise reaction) is one atomic    *)
(* action; jobs of different calls interleave in any order, which is what  *)
(* the event loop allows when the requests of several calls are in flight. *)
(* The remote service is the environment: it answers a request with any    *)
(* status, status text and body, or the request fails at network level.    *)
(* Host callbacks are recorded per call, in the order they are invoked;    *)
(* in Spec every host-supplied function returns normally, and SpecThrow    *)
(* adds the jobs of refresh() in which one of them throws.                 *)
(***************************************************************************)
EXTENDS Naturals, Sequences, FiniteSets, TLC

(***************************************************************************)
(* Bounds of the model.                                                    *)
(***************************************************************************)
MaxCalls == 2      \* refresh()/init() calls made on the instance
MaxNav == 1        \* login()/logout() calls made on the instance

Calls == 1..MaxCalls

(***************************************************************************)
(* JavaScript values that can sit in the accessToken field of a body.      *)
(***************************************************************************)
Undefined == [t |-> "undefined", v |-> ""]
Str(s) == [t |-> "string", v |-> s]
Num(s) == [t |-> "number", v |-> s]

TypeOf(x) == x.t

\* JavaScript truthiness of a value (the `!x` and `&& x` tests).
Truthy(x) ==
    CASE x.t = "undefined" -> FALSE
      [] x.t = "string" -> x.v # ""
      [] x.t = "number" -> x.v # "0"
      [] OTHER -> TRUE

(***************************************************************************)
(* Errors.                                                                 *)
(***************************************************************************)
NewError(msg) == [name |-> "Error", message |-> msg]
NoError == [name |-> "", message |-> ""]
SyntaxError == [name |-> "SyntaxError", message |-> "Unexpected token"]
NetworkErrors ==
    { NewError("Network error"),
      [name |-> "TypeError", message |-> "Failed to fetch"] }

InvalidAuthResponse == "Invalid auth response: missing or invalid accessToken"

\* What a host-supplied function throws, when it throws.
HostErrors == { NewError("host function failed") }

\* What onError throws, when it throws: an error of its own.
OnErrorFailures == { NewError("onError failed") }

(***************************************************************************)
(* Responses of the refresh endpoint.  A body either fails to parse as     *)
(* JSON, or parses to null, or to an object whose accessToken is some      *)
(* JavaScript value (Undefined when the field is absent).                  *)
(***************************************************************************)
Body(parses, isNull, tok) == [parses |-> parses, isNull |-> isNull, accessToken |-> tok]
NoBody == Body(FALSE, TRUE, Undefined)
BadJson == Body(FALSE, FALSE, Undefined)
NullData == Body(TRUE, TRUE, Undefined)
Obj(tok) == Body(TRUE, FALSE, tok)

OkBodies ==
    { BadJson, NullData, Obj(Undefined), Obj(Num("123")), Obj(Str("")),
      Obj(Str("tok1")), Obj(Str("tok2")) }

Response(status, text, body) == [status |-> status, statusText |-> text, body |-> body]
NoResponse == Response(0, "", NoBody)

Responses ==
    { Response(200, "OK", b) : b \in OkBodies }
    \cup { Response(401, "Unauthorized", NoBody),
           Response(500, "Internal Server Error", NoBody),
           Response(403, "Forbidden", NoBody) }

(***************************************************************************)
(* Program constants.                                                      *)
(***************************************************************************)
DEFAULT_BASE_URL == "https://bkper.app"
AUTH_LOGIN_PATH == "/auth/login"
AUTH_REFRESH_PATH == "/auth/refresh"
AUTH_LOGOUT_PATH == "/auth/logout"

(***************************************************************************)
(* Strings that get URL-encoded are sequences of pieces: a piece is either *)
(* one reserved character or a run of characters that no encoder touches.  *)
(***************************************************************************)
RECURSIVE Cat(_)
Cat(s) == IF s = <<>> THEN "" ELSE Head(s) \o Cat(Tail(s))

\* encodeURIComponent on one piece: ~ is left alone, space becomes %20.
EncodeURIComponentPiece(p) ==
    CASE p = " " -> "%20"
      [] p = "&" -> "%26"
      [] p = "=" -> "%3D"
      [] p = ":" -> "%3A"
      [] p = "/" -> "%2F"
      [] p = "?" -> "%3F"
      [] p = "#" -> "%23"
      [] OTHER -> p

RECURSIVE encodeURIComponent(_)
encodeURIComponent(s) ==
    IF s = <<>> THEN ""
    ELSE EncodeURIComponentPiece(Head(s)) \o encodeURIComponent(Tail(s))

\* application/x-www-form-urlencoded on one piece: space becomes +, ~ is encoded.
FormEncodePiece(p) ==
    CASE p = " " -> "+"
      [] p = "&" -> "%26"
      [] p = "=" -> "%3D"
      [] p = ":" -> "%3A"
      [] p = "/" -> "%2F"
      [] p = "?" -> "%3F"
      [] p = "#" -> "%23"
      [] p = "~" -> "%7E"
      [] OTHER -> p

RECURSIVE FormEncode(_)
FormEncode(s) ==
    IF s = <<>> THEN "" ELSE FormEncodePiece(Head(s)) \o FormEncode(Tail(s))

\* new URLSearchParams(record).toString()
RECURSIVE URLSearchParamsToString(_)
URLSearchParamsToString(params) ==
    IF params = <<>> THEN ""
    ELSE FormEncode(Head(params).key) \o "=" \o FormEncode(Head(params).value)
         \o (IF Tail(params) = <<>> THEN "" ELSE "&")
         \o URLSearchParamsToString(Tail(params))

\* The mapping a getAdditionalAuthParams supplier returns: its entries, in order.
Param(k, v) == [key |-> k, value |-> v]
NoParams == <<>>
CustomParams ==
    << Param(<<"customToken">>, <<"abc123">>),
       Param(<<"next">>, <<"a", " ", "b", "&", "c", "~">>) >>

\* self.location.href of the hosting page.
Href == <<"http", ":", "/", "/", "localhost", ":", "3000", "/", "app">>
HrefWithQuery ==
    <<"https", ":", "/", "/", "app.example.com", "/", "books",
      "?", "q", "=", "a", " ", "b", "&", "p", "=", "2", "#", "top">>
Hrefs == {Href, HrefWithQuery}

\* The cookies of the page: a function from the names present to their values.
ALREADY_LOGGED == "already-logged"
NoCookies == [n \in {} |-> ""]
CookieJars == {NoCookies, [n \in {ALREADY_LOGGED} |-> "true"]}

(***************************************************************************)
(* Configuration bundles: which optional members the host supplied.  A     *)
(* callback is TRUE when supplied; baseUrl is "" when not supplied; the    *)
(* supplier, when present, returns the mapping `params` on every call.     *)
(***************************************************************************)
UrlSetups ==
    { [baseUrl |-> "", getAdditionalAuthParams |-> FALSE, params |-> NoParams],
      [baseUrl |-> "http://localhost:3000", getAdditionalAuthParams |-> TRUE,
       params |-> CustomParams] }

Configs ==
    { [ baseUrl |-> u.baseUrl,
        getAdditionalAuthParams |-> u.getAdditionalAuthParams,
        params |-> u.params,
        onTokenRefresh |-> f[1],
        onLoginSuccess |-> f[2],
        onLoginRequired |-> f[3],
        onLogout |-> f[4],
        onError |-> f[5] ] : u \in UrlSetups, f \in [1..5 -> BOOLEAN] }

\* Every way of supplying baseUrl and getAdditionalAuthParams, with all the
\* callbacks supplied: the supplier is absent, or returns an empty mapping, one
\* entry, or two.
SingleParam == << Param(<<"customToken">>, <<"abc123">>) >>

Suppliers ==
    { [getAdditionalAuthParams |-> FALSE, params |-> NoParams],
      [getAdditionalAuthParams |-> TRUE, params |-> NoParams],
      [getAdditionalAuthParams |-> TRUE, params |-> SingleParam],
      [getAdditionalAuthParams |-> TRUE, params |-> CustomParams] }

ConfigsUrl ==
    { [ baseUrl |-> b,
        getAdditionalAuthParams |-> u.getAdditionalAuthParams,
        params |-> u.params,
        onTokenRefresh |-> TRUE,
        onLoginSuccess |-> TRUE,
        onLoginRequired |-> TRUE,
        onLogout |-> TRUE,
        onError |-> TRUE ] : b \in {"", "http://localhost:3000"}, u \in Suppliers }

VARIABLES
    config,       \* this.config
    baseUrl,      \* this.baseUrl
    accessToken,  \* this.accessToken
    calls,        \* the refresh()/init() calls made so far, by call number
    requests,     \* the fetch() calls issued, in order
    hostLog,      \* onLogout invocations and location.assign calls, in order
    handled,      \* the calls whose outcome has been handled, in order
    location,     \* self.location.href of the hosting page
    cookies       \* the cookies of the hosting page, by name

vars == <<config, baseUrl, accessToken, calls, requests, hostLog, handled, location, cookies>>

NoCall ==
    [ kind |-> "none",          \* "refresh" or "init" once called
      pc |-> "idle",            \* position of the refresh() promise chain
      ipc |-> "none",           \* position of init() around its await
      resp |-> NoResponse,      \* the response fetch() resolved with
      neterr |-> NoError,       \* the error fetch() rejected with
      reason |-> NoError,       \* the rejection travelling down the chain
      tokenRefresh |-> <<>>,    \* arguments of the onTokenRefresh invocations
      tokenSeen |-> <<>>,       \* this.accessToken during those invocations
      errors |-> <<>>,          \* arguments of the onError invocations
      errorSeen |-> <<>>,       \* this.accessToken during those of refresh()
      loginSuccess |-> 0,       \* onLoginSuccess invocations
      loginRequired |-> 0,      \* onLoginRequired invocations
      checked |-> Undefined ]   \* this.accessToken as checkAccessToken read it

\* A constructor that starts out with a token restored from an earlier session.
Constructor_Restores(cfg) ==
    /\ config = cfg
    /\ baseUrl = IF cfg.baseUrl # "" THEN cfg.baseUrl ELSE DEFAULT_BASE_URL
    /\ accessToken = Str("tok1")

\* constructor(config)
Constructor(cfg) ==
    /\ config = cfg
    /\ baseUrl = IF cfg.baseUrl # "" THEN cfg.baseUrl ELSE DEFAULT_BASE_URL
    /\ accessToken = Undefined

\* A freshly constructed instance, in a page at one of hrefs whose cookies are
\* one of jars.
InitIn(cfgs, hrefs, jars) ==
    /\ \E cfg \in cfgs : Constructor(cfg)
    /\ calls = [c \in Calls |-> NoCall]
    /\ requests = <<>>
    /\ hostLog = <<>>
    /\ handled = <<>>
    /\ location \in hrefs
    /\ cookies \in jars

Init == InitIn(Configs, {Href}, {NoCookies})


Last(s) == s[Len(s)]

(***************************************************************************)
(* URL builders.                                                           *)
(***************************************************************************)
\* A login URL whose extra parameters are form-encoded, as the refresh URL's are.
getLoginUrl_FormEncoded(href) ==
    LET RECURSIVE Extra(_)
        Extra(ps) ==
            IF ps = <<>> THEN ""
            ELSE "&" \o Cat(Head(ps).key) \o "=" \o FormEncode(Head(ps).value)
                 \o Extra(Tail(ps))
    IN  baseUrl \o AUTH_LOGIN_PATH \o "?returnUrl=" \o encodeURIComponent(href)
        \o (IF config.getAdditionalAuthParams THEN Extra(config.params) ELSE "")

\* getLoginUrl(), with self.location.href = href
getLoginUrl(href) ==
    LET RECURSIVE Extra(_)
        Extra(ps) ==
            IF ps = <<>> THEN ""
            ELSE "&" \o Cat(Head(ps).key) \o "=" \o encodeURIComponent(Head(ps).value)
                 \o Extra(Tail(ps))
    IN  baseUrl \o AUTH_LOGIN_PATH \o "?returnUrl=" \o encodeURIComponent(href)
        \o (IF config.getAdditionalAuthParams THEN Extra(config.params) ELSE "")

getRefreshUrl ==
    LET queryString ==
            IF config.getAdditionalAuthParams
            THEN URLSearchParamsToString(config.params)
            ELSE ""
    IN  baseUrl \o AUTH_REFRESH_PATH
        \o (IF queryString # "" THEN "?" \o queryString ELSE "")

getLogoutUrl == baseUrl \o AUTH_LOGOUT_PATH

(***************************************************************************)
(* refresh(): the synchronous part, up to and including the fetch() call.  *)
(***************************************************************************)
Request(c, url) ==
    [call |-> c, url |-> url, method |-> "POST", credentials |-> "include"]

\* The calls are numbered in the order they are made.
CanCall(c) ==
    /\ calls[c].kind = "none"
    /\ \A d \in Calls : d < c => calls[d].kind # "none"

\* A refresh() that joins a request already in flight instead of issuing its own.
StartRefresh_Joined(c, kind) ==
    /\ CanCall(c)
    /\ requests' =
           IF \E d \in Calls : calls[d].pc = "fetching"
           THEN requests
           ELSE Append(requests, Request(c, getRefreshUrl))
    /\ calls' = [calls EXCEPT ![c].kind = kind,
                              ![c].pc = "fetching",
                              ![c].ipc = IF kind = "init" THEN "awaiting" ELSE "none"]
    /\ UNCHANGED <<config, baseUrl, location, cookies, accessToken, hostLog, handled>>

StartRefresh(c, kind) ==
    /\ CanCall(c)
    /\ requests' = Append(requests, Request(c, getRefreshUrl))
    /\ calls' = [calls EXCEPT ![c].kind = kind,
                              ![c].pc = "fetching",
                              ![c].ipc = IF kind = "init" THEN "awaiting" ELSE "none"]
    /\ UNCHANGED <<config, baseUrl, location, cookies, accessToken, hostLog, handled>>

\* refresh() called by the host
refresh(c) == StartRefresh(c, "refresh")

\* init(): runs refresh() up to its fetch(), then awaits the promise
init(c) == StartRefresh(c, "init")

(***************************************************************************)
(* refresh(): the reactions of the promise chain.                          *)
(***************************************************************************)
\* A validation that accepts every truthy accessToken, whatever its type.
InvalidData_TruthyOnly(body) ==
    \/ body.isNull
    \/ ~Truthy(body.accessToken)

\* A validation that only looks for the field, and accepts any value of it.
InvalidData_FieldOnly(body) ==
    \/ body.isNull
    \/ TypeOf(body.accessToken) = "undefined"

\* The validation of line 164: TRUE when the parsed data is rejected.
InvalidData(body) ==
    \/ body.isNull
    \/ TypeOf(body.accessToken) # "string"
    \/ ~Truthy(body.accessToken)

\* A 401 branch that leaves the field as it is.
TokenOn401_Kept == accessToken

\* What the 401 branch assigns to this.accessToken.
TokenOn401 == Undefined

\* A catch handler that leaves the field as it is.
TokenOnCatch_Kept == accessToken

\* What the catch handler assigns to this.accessToken.
TokenOnCatch == Undefined

\* A 200 branch that keeps a token that is already held.
TokenOnData_KeepHeld(body) ==
    IF Truthy(accessToken) THEN accessToken ELSE body.accessToken

\* What the 200 branch assigns to this.accessToken.
TokenOnData(body) == body.accessToken

\* The arguments onTokenRefresh is invoked with after token was stored.
TokenRefreshArgs(token) ==
    IF config.onTokenRefresh /\ Truthy(token) THEN <<token>> ELSE <<>>

\* An onTokenRefresh that is invoked before the assignment of the field.
TokenSeenArgs_BeforeStore(before, stored) ==
    IF config.onTokenRefresh /\ Truthy(stored) THEN <<before>> ELSE <<>>

\* What getAccessToken() returns inside each onTokenRefresh invocation of the
\* 200 branch, where the field held `before` and `stored` is assigned to it:
\* the assignment (line 167) precedes the invocation (lines 168-170).
TokenSeenArgs(before, stored) ==
    IF config.onTokenRefresh /\ Truthy(stored) THEN <<stored>> ELSE <<>>

\* An error notification that wraps the reason in a new error.
ErrorArgs_Wrapped(reason) ==
    IF config.onError THEN <<NewError(reason.message)>> ELSE <<>>

\* The arguments onError is invoked with for the rejection reason.
ErrorArgs(reason) == IF config.onError THEN <<reason>> ELSE <<>>

\* What getAccessToken() returns inside the onError invocation of the catch
\* handler, which assigns `cleared` to the field (line 181) before it invokes
\* the callback (lines 182-184).
ErrorSeenArgs(cleared) == IF config.onError THEN <<cleared>> ELSE <<>>

\* A rejection that carries a fixed message instead of the status text.
StatusError_Fixed(r) == NewError("Request failed")

\* The error the chain rejects with for a status other than 200 and 401.
StatusError(r) == NewError(r.statusText)

\* fetch() resolves with response r: the first then-handler runs.
FetchResolves(c, r) ==
    /\ calls[c].pc = "fetching"
    /\ IF r.status = 200
       THEN /\ calls' = [calls EXCEPT ![c].resp = r, ![c].pc = "parsing"]
            /\ UNCHANGED <<accessToken, handled>>
       ELSE IF r.status = 401
       THEN /\ accessToken' = TokenOn401
            /\ calls' = [calls EXCEPT ![c].resp = r, ![c].pc = "resolved"]
            /\ handled' = Append(handled, c)
       ELSE /\ calls' = [calls EXCEPT ![c].resp = r,
                                      ![c].reason = StatusError(r),
                                      ![c].pc = "rejecting"]
            /\ UNCHANGED <<accessToken, handled>>
    /\ UNCHANGED <<config, baseUrl, location, cookies, requests, hostLog>>

\* fetch() rejects with error e: the then-handler is skipped.
FetchRejects(c, e) ==
    /\ calls[c].pc = "fetching"
    /\ calls' = [calls EXCEPT ![c].neterr = e, ![c].reason = e, ![c].pc = "rejecting"]
    /\ UNCHANGED <<config, baseUrl, location, cookies, accessToken, requests, hostLog, handled>>

\* A chain that is left pending when the body does not parse.
JsonSettles_Hangs(c) ==
    LET body == calls[c].resp.body IN
    /\ calls[c].pc = "parsing"
    /\ body.parses
    /\ IF InvalidData(body)
       THEN /\ calls' = [calls EXCEPT ![c].reason = NewError(InvalidAuthResponse),
                                      ![c].pc = "rejecting"]
            /\ UNCHANGED <<accessToken, handled>>
       ELSE /\ accessToken' = TokenOnData(body)
            /\ calls' = [calls EXCEPT
                   ![c].tokenRefresh = @ \o TokenRefreshArgs(accessToken'),
                   ![c].tokenSeen = @ \o TokenSeenArgs(accessToken, accessToken'),
                   ![c].pc = "resolved"]
            /\ handled' = Append(handled, c)
    /\ UNCHANGED <<config, baseUrl, location, cookies, requests, hostLog>>

\* response.json() settles: the inner then-handler runs, or is skipped.
JsonSettles(c) ==
    LET body == calls[c].resp.body IN
    /\ calls[c].pc = "parsing"
    /\ IF ~body.parses
       THEN /\ calls' = [calls EXCEPT ![c].reason = SyntaxError, ![c].pc = "rejecting"]
            /\ UNCHANGED <<accessToken, handled>>
       ELSE IF InvalidData(body)
       THEN /\ calls' = [calls EXCEPT ![c].reason = NewError(InvalidAuthResponse),
                                      ![c].pc = "rejecting"]
            /\ UNCHANGED <<accessToken, handled>>
       ELSE /\ accessToken' = TokenOnData(body)
            /\ calls' = [calls EXCEPT
                   ![c].tokenRefresh = @ \o TokenRefreshArgs(accessToken'),
                   ![c].tokenSeen = @ \o TokenSeenArgs(accessToken, accessToken'),
                   ![c].pc = "resolved"]
            /\ handled' = Append(handled, c)
    /\ UNCHANGED <<config, baseUrl, location, cookies, requests, hostLog>>

\* A catch handler that re-issues the request once before giving up.
CatchHandler_Retries(c) ==
    /\ calls[c].pc = "rejecting"
    /\ IF Cardinality({i \in 1..Len(requests) : requests[i].call = c}) < 2
       THEN /\ requests' = Append(requests, Request(c, getRefreshUrl))
            /\ calls' = [calls EXCEPT ![c].pc = "fetching", ![c].reason = NoError,
                                      ![c].neterr = NoError]
            /\ UNCHANGED <<accessToken, handled>>
       ELSE /\ accessToken' = TokenOnCatch
            /\ calls' = [calls EXCEPT ![c].errors = @ \o ErrorArgs(calls[c].reason),
                                      ![c].errorSeen = @ \o ErrorSeenArgs(accessToken'),
                                      ![c].pc = "rejected"]
            /\ handled' = Append(handled, c)
            /\ UNCHANGED requests
    /\ UNCHANGED <<config, baseUrl, location, cookies, hostLog>>

\* The catch handler of the chain.
CatchHandler(c) ==
    /\ calls[c].pc = "rejecting"
    /\ accessToken' = TokenOnCatch
    /\ calls' = [calls EXCEPT ![c].errors = @ \o ErrorArgs(calls[c].reason),
                              ![c].errorSeen = @ \o ErrorSeenArgs(accessToken'),
                              ![c].pc = "rejected"]
    /\ handled' = Append(handled, c)
    /\ UNCHANGED <<config, baseUrl, location, cookies, requests, hostLog>>

(***************************************************************************)
(* init(): after the await.                                                *)
(***************************************************************************)
\* A check that takes every resolved refresh() for a login.
checkAccessToken_AlwaysSuccess(c, token) ==
    [calls EXCEPT ![c].checked = token,
                  ![c].loginSuccess = IF config.onLoginSuccess THEN @ + 1 ELSE @,
                  ![c].ipc = "resolved"]

\* checkAccessToken(): which callback runs, given the token it reads
checkAccessToken(c, token) ==
    IF Truthy(token)
    THEN [calls EXCEPT ![c].checked = token,
                       ![c].loginSuccess = IF config.onLoginSuccess THEN @ + 1 ELSE @,
                       ![c].ipc = "resolved"]
    ELSE [calls EXCEPT ![c].checked = token,
                       ![c].loginRequired = IF config.onLoginRequired THEN @ + 1 ELSE @,
                       ![c].ipc = "resolved"]

\* An init() that decides by the response of its own refresh().
InitResumes_OwnResponse(c) ==
    /\ calls[c].ipc = "awaiting"
    /\ calls[c].pc = "resolved"
    /\ calls' = checkAccessToken(c, IF calls[c].resp.status = 200
                                    THEN calls[c].resp.body.accessToken
                                    ELSE Undefined)
    /\ UNCHANGED <<config, baseUrl, location, cookies, accessToken, requests, hostLog, handled>>

\* The refresh() promise resolved: init() resumes inside its try block.
InitResumes(c) ==
    /\ calls[c].ipc = "awaiting"
    /\ calls[c].pc = "resolved"
    /\ calls' = checkAccessToken(c, accessToken)
    /\ UNCHANGED <<config, baseUrl, location, cookies, accessToken, requests, hostLog, handled>>

\* A catch block that goes on to the token check after reporting the error.
InitCatches_ThenChecks(c) ==
    /\ calls[c].ipc = "awaiting"
    /\ calls[c].pc = "rejected"
    /\ calls' = [checkAccessToken(c, accessToken) EXCEPT
                     ![c].errors = @ \o ErrorArgs(calls[c].reason)]
    /\ UNCHANGED <<config, baseUrl, location, cookies, accessToken, requests, hostLog, handled>>

\* The refresh() promise rejected: init() resumes in its catch block.
InitCatches(c) ==
    /\ calls[c].ipc = "awaiting"
    /\ calls[c].pc = "rejected"
    /\ calls' = [calls EXCEPT ![c].errors = @ \o ErrorArgs(calls[c].reason),
                              ![c].ipc = "resolved"]
    /\ UNCHANGED <<config, baseUrl, location, cookies, accessToken, requests, hostLog, handled>>

(***************************************************************************)
(* login(), logout(), getAccessToken().                                    *)
(***************************************************************************)
Assign(url) == [ev |-> "assign", url |-> url]
OnLogout == [ev |-> "onLogout", url |-> ""]

NavCount == Cardinality({i \in 1..Len(hostLog) : hostLog[i].ev = "assign"})

login ==
    /\ NavCount < MaxNav
    /\ hostLog' = Append(hostLog, Assign(getLoginUrl(location)))
    /\ UNCHANGED <<config, baseUrl, location, cookies, accessToken, calls, requests, handled>>

\* A logout() that also drops the in-memory token.
logout_ClearsToken ==
    /\ NavCount < MaxNav
    /\ hostLog' = hostLog \o (IF config.onLogout THEN <<OnLogout>> ELSE <<>>)
                          \o <<Assign(getLogoutUrl)>>
    /\ accessToken' = Undefined
    /\ UNCHANGED <<config, baseUrl, location, cookies, calls, requests, handled>>

\* A logout() that navigates away before it tells the host.
logout_RedirectFirst ==
    /\ NavCount < MaxNav
    /\ hostLog' = hostLog \o <<Assign(getLogoutUrl)>>
                          \o (IF config.onLogout THEN <<OnLogout>> ELSE <<>>)
    /\ UNCHANGED <<config, baseUrl, location, cookies, accessToken, calls, requests, handled>>

logout ==
    /\ NavCount < MaxNav
    /\ hostLog' = hostLog \o (IF config.onLogout THEN <<OnLogout>> ELSE <<>>)
                          \o <<Assign(getLogoutUrl)>>
    /\ UNCHANGED <<config, baseUrl, location, cookies, accessToken, calls, requests, handled>>

\* getAccessToken() is a read of the field: it is a function of the state.
getAccessToken == accessToken

\* The outcome of a synchronous call: the value returned, or the error thrown.
Bool(b) == [t |-> "boolean", v |-> IF b THEN "true" ELSE "false"]
Returns(v) == [threw |-> NoError, value |-> v]
Throws(e) == [threw |-> e, value |-> Undefined]

\* auth.hasLoggedInBefore(), as the tests call it: class BkperAuth declares no
\* such member, so the expression auth.hasLoggedInBefore is undefined and the
\* call throws a TypeError, whatever the cookies and the token are.
hasLoggedInBefore ==
    Throws([name |-> "TypeError", message |-> "auth.hasLoggedInBefore is not a function"])

(***************************************************************************)
(* The specification.                                                      *)
(***************************************************************************)
Next ==
    \/ \E c \in Calls : refresh(c)
    \/ \E c \in Calls : init(c)
    \/ \E c \in Calls, r \in Responses : FetchResolves(c, r)
    \/ \E c \in Calls, e \in NetworkErrors : FetchRejects(c, e)
    \/ \E c \in Calls : JsonSettles(c)
    \/ \E c \in Calls : CatchHandler(c)
    \/ \E c \in Calls : InitResumes(c)
    \/ \E c \in Calls : InitCatches(c)
    \/ login
    \/ logout

Spec == Init /\ [][Next]_vars

(***************************************************************************)
(* Host-supplied functions that throw inside refresh().  Each action is    *)
(* the job of the same name above, cut short by the exception.             *)
(***************************************************************************)
\* getAdditionalAuthParams() throws e inside getRefreshUrl(): the async function
\* refresh() ends before fetch() and before the chain exists, so its promise
\* rejects with e and neither handler of the chain runs.
SupplierThrows(c, kind, e) ==
    /\ CanCall(c)
    /\ config.getAdditionalAuthParams
    /\ calls' = [calls EXCEPT ![c].kind = kind,
                              ![c].pc = "rejected",
                              ![c].reason = e,
                              ![c].ipc = IF kind = "init" THEN "awaiting" ELSE "none"]
    /\ handled' = Append(handled, c)
    /\ UNCHANGED <<config, baseUrl, location, cookies, accessToken, requests, hostLog>>

\* An exception of onTokenRefresh that is swallowed: the call resolves.
OnTokenRefreshThrows_Swallowed(c, e) ==
    LET body == calls[c].resp.body IN
    /\ calls[c].pc = "parsing"
    /\ body.parses
    /\ ~InvalidData(body)
    /\ config.onTokenRefresh
    /\ accessToken' = TokenOnData(body)
    /\ calls' = [calls EXCEPT
           ![c].tokenRefresh = @ \o TokenRefreshArgs(accessToken'),
           ![c].tokenSeen = @ \o TokenSeenArgs(accessToken, accessToken'),
           ![c].reason = e,
           ![c].pc = "rejected"]
    /\ handled' = Append(handled, c)
    /\ UNCHANGED <<config, baseUrl, location, cookies, requests, hostLog>>

\* onTokenRefresh(token) throws e: the token is already stored, the inner
\* then-handler ends with e and the chain goes to its catch handler.
OnTokenRefreshThrows(c, e) ==
    LET body == calls[c].resp.body IN
    /\ calls[c].pc = "parsing"
    /\ body.parses
    /\ ~InvalidData(body)
    /\ config.onTokenRefresh
    /\ accessToken' = TokenOnData(body)
    /\ calls' = [calls EXCEPT
           ![c].tokenRefresh = @ \o TokenRefreshArgs(accessToken'),
           ![c].tokenSeen = @ \o TokenSeenArgs(accessToken, accessToken'),
           ![c].reason = e,
           ![c].pc = "rejecting"]
    /\ UNCHANGED <<config, baseUrl, location, cookies, requests, hostLog, handled>>

\* onError(error) throws e inside the catch handler: the token is already
\* cleared, and the promise rejects with e instead of the error reported.
OnErrorThrows(c, e) ==
    /\ calls[c].pc = "rejecting"
    /\ config.onError
    /\ accessToken' = TokenOnCatch
    /\ calls' = [calls EXCEPT ![c].errors = @ \o ErrorArgs(calls[c].reason),
                              ![c].errorSeen = @ \o ErrorSeenArgs(accessToken'),
                              ![c].reason = e,
                              ![c].pc = "rejected"]
    /\ handled' = Append(handled, c)
    /\ UNCHANGED <<config, baseUrl, location, cookies, requests, hostLog>>

NextThrow ==
    \/ Next
    \/ \E c \in Calls, e \in HostErrors : SupplierThrows(c, "refresh", e)
    \/ \E c \in Calls, e \in HostErrors : SupplierThrows(c, "init", e)
    \/ \E c \in Calls, e \in HostErrors : OnTokenRefreshThrows(c, e)
    \/ \E c \in Calls, e \in OnErrorFailures : OnErrorThrows(c, e)

\* The program with host functions that may throw inside refresh().
SpecThrow == Init /\ [][NextThrow]_vars

(***************************************************************************)
(* The program under the scheduling of the event loop: a promise reaction  *)
(* that is ready to run is run, and the body of a response that has        *)
(* arrived is read to its end.  Nothing is assumed of the request itself:  *)
(* fetch() may stay pending forever, and the host need not call anything.  *)
(***************************************************************************)
Fairness ==
    \A c \in Calls :
        /\ WF_vars(JsonSettles(c))
        /\ WF_vars(CatchHandler(c))
        /\ WF_vars(InitResumes(c))
        /\ WF_vars(InitCatches(c))

InitLive == InitIn(ConfigsUrl, {Href}, {NoCookies})

SpecLive == InitLive /\ [][Next]_vars /\ Fairness

\* The same program, started from every way of supplying the URL inputs.
InitUrl == InitIn(ConfigsUrl, Hrefs, {NoCookies})

SpecUrl == InitUrl /\ [][Next]_vars

\* The same program, in a page with or without the 'already-logged' cookie.
InitCookie == InitIn(ConfigsUrl, {Href}, CookieJars)

SpecCookie == InitCookie /\ [][Next]_vars


(***************************************************************************)
(* Vocabulary of the properties, stated on responses and call records.     *)
(***************************************************************************)
\* A 200 response whose body carries a non-empty string accessToken.
WellFormed(r) ==
    /\ r.status = 200
    /\ r.body.parses
    /\ ~r.body.isNull
    /\ r.body.accessToken.t = "string"
    /\ r.body.accessToken.v # ""

\* The response of call c has been received and handled to the end.
Handled(c) == \E i \in 1..Len(handled) : handled[i] = c

\* No outcome has been handled since that of call c.
LatestHandled(c) == handled # <<>> /\ Last(handled) = c

Started(c) == calls[c].kind # "none"

(***************************************************************************)
(* C1.  A refresh() call whose response is a 200 carrying a non-empty      *)
(* string accessToken t, whatever token was held before: the promise       *)
(* resolves, getAccessToken() returns t from then on (until the outcome of *)
(* another call is handled), and onTokenRefresh, when supplied, has been   *)
(* invoked exactly once in that call, with t.                              *)
(***************************************************************************)
C1_ValidRefreshStoresToken ==
    \A c \in Calls :
        (WellFormed(calls[c].resp) /\ calls[c].pc # "parsing") =>
            /\ calls[c].pc = "resolved"
            /\ calls[c].reason = NoError
            /\ LatestHandled(c) => getAccessToken = calls[c].resp.body.accessToken
            /\ calls[c].tokenRefresh =
                   IF config.onTokenRefresh
                   THEN <<calls[c].resp.body.accessToken>>
                   ELSE <<>>

\* Two calls answered with different valid tokens: the second was handled while
\* the first token was held.
C1_Witness ==
    /\ config.onTokenRefresh
    /\ handled = <<1, 2>>
    /\ calls[1].resp.body.accessToken = Str("tok1")
    /\ calls[2].resp.body.accessToken = Str("tok2")
    /\ calls[2].pc = "resolved"
    /\ calls[2].tokenRefresh = <<Str("tok2")>>
    /\ getAccessToken = Str("tok2")

(***************************************************************************)
(* C2.  A refresh() call whose response is a 401, whatever token was held  *)
(* before: the promise resolves, getAccessToken() returns undefined from   *)
(* then on (until the outcome of another call is handled), and the call    *)
(* invokes neither onError nor onTokenRefresh.                             *)
(***************************************************************************)
C2_UnauthorizedClearsToken ==
    \A c \in Calls :
        calls[c].resp.status = 401 =>
            /\ calls[c].pc = "resolved"
            /\ calls[c].reason = NoError
            /\ LatestHandled(c) => getAccessToken = Undefined
            /\ calls[c].errors = <<>>
            /\ calls[c].tokenRefresh = <<>>

\* A 401 handled while the token of an earlier call was held.
C2_Witness ==
    /\ config.onError
    /\ config.onTokenRefresh
    /\ handled = <<1, 2>>
    /\ WellFormed(calls[1].resp)
    /\ calls[2].resp.status = 401
    /\ calls[2].pc = "resolved"
    /\ getAccessToken = Undefined

(***************************************************************************)
(* C3.  init() never throws: whenever the refresh() it performs rejects,   *)
(* the promise of init() resolves and onError (when supplied) has been     *)
(* invoked exactly once in total for that init() call.                     *)
(***************************************************************************)
C3_InitOnErrorExactlyOnce ==
    \A c \in Calls :
        (calls[c].kind = "init" /\ calls[c].pc = "rejected"
            /\ calls[c].ipc # "awaiting") =>
            /\ calls[c].ipc = "resolved"
            /\ config.onError => Len(calls[c].errors) = 1

(***************************************************************************)
(* C4.  In every state where no refresh response is being handled,         *)
(* accessToken is defined if and only if the refresh attempt that          *)
(* completed most recently completed with a 200 response carrying a        *)
(* well-formed token; after any other outcome of it, and before any        *)
(* attempt completed, accessToken is undefined.                            *)
(***************************************************************************)
Quiescent == \A c \in Calls : calls[c].pc \notin {"parsing", "rejecting"}

C4_TokenDefinedIffLastAttemptValid ==
    Quiescent =>
        ( (accessToken # Undefined)
          <=> (handled # <<>> /\ WellFormed(calls[Last(handled)].resp)) )

\* A failed attempt completed after a successful one, and the reverse.
C4_Witness ==
    /\ Quiescent
    /\ handled = <<2, 1>>
    /\ WellFormed(calls[2].resp)
    /\ calls[1].neterr # NoError
    /\ accessToken = Undefined

(***************************************************************************)
(* C5.  A refresh() call whose response is a 200 whose parsed body is      *)
(* missing (null), or whose accessToken is absent, not a string, or empty, *)
(* whatever token was held before: the promise does not resolve but        *)
(* rejects with the 'Invalid auth response' error, onTokenRefresh is never *)
(* invoked, onError (when supplied) is invoked with that error, and        *)
(* getAccessToken() returns undefined afterwards.                          *)
(***************************************************************************)
MalformedPayload(r) ==
    /\ r.status = 200
    /\ r.body.parses
    /\ \/ r.body.isNull
       \/ r.body.accessToken.t # "string"
       \/ r.body.accessToken.v = ""

C5_MalformedPayloadRejects ==
    \A c \in Calls :
        (MalformedPayload(calls[c].resp) /\ calls[c].pc # "parsing") =>
            /\ calls[c].pc \in {"rejecting", "rejected"}
            /\ calls[c].reason = NewError(InvalidAuthResponse)
            /\ calls[c].tokenRefresh = <<>>
            /\ calls[c].pc = "rejected" =>
                   /\ config.onError =>
                          /\ calls[c].errors # <<>>
                          /\ \A i \in 1..Len(calls[c].errors) :
                                 calls[c].errors[i] = NewError(InvalidAuthResponse)
                   /\ LatestHandled(c) => getAccessToken = Undefined

\* An empty accessToken rejected while the token of an earlier call was held,
\* and a non-string one rejected as well.
C5_Witness ==
    /\ config.onError
    /\ handled = <<1, 2>>
    /\ WellFormed(calls[1].resp)
    /\ calls[2].resp.body = Obj(Str(""))
    /\ calls[2].pc = "rejected"
    /\ calls[2].errors # <<>>
    /\ getAccessToken = Undefined

(***************************************************************************)
(* C6.  A refresh() call whose response status is neither 200 nor 401,     *)
(* whatever token was held before: the promise rejects with an error whose *)
(* message is the response's status text, the stored token is cleared, and *)
(* onError (when supplied) is invoked with that error.                     *)
(***************************************************************************)
C6_OtherStatusRejectsWithStatusText ==
    \A c \in Calls :
        (calls[c].resp.status \notin {0, 200, 401}) =>
            /\ calls[c].pc \in {"rejecting", "rejected"}
            /\ calls[c].reason.message = calls[c].resp.statusText
            /\ calls[c].pc = "rejected" =>
                   /\ config.onError =>
                          /\ calls[c].errors # <<>>
                          /\ \A i \in 1..Len(calls[c].errors) :
                                 calls[c].errors[i] = calls[c].reason
                   /\ LatestHandled(c) => accessToken = Undefined

\* A 500 handled while the token of an earlier call was held.
C6_Witness ==
    /\ config.onError
    /\ handled = <<1, 2>>
    /\ WellFormed(calls[1].resp)
    /\ calls[2].resp.status = 500
    /\ calls[2].pc = "rejected"
    /\ calls[2].reason.message = "Internal Server Error"
    /\ calls[2].errors = <<NewError("Internal Server Error")>>
    /\ accessToken = Undefined

(***************************************************************************)
(* C7.  A refresh() call whose request fails at network level with error   *)
(* e, whatever token was held before: the promise rejects with e itself,   *)
(* onError (when supplied) is invoked with e, and getAccessToken() returns *)
(* undefined afterwards.                                                   *)
(***************************************************************************)
C7_NetworkFailureRejectsWithSameError ==
    \A c \in Calls :
        (calls[c].neterr # NoError) =>
            /\ calls[c].pc \in {"rejecting", "rejected"}
            /\ calls[c].reason = calls[c].neterr
            /\ calls[c].tokenRefresh = <<>>
            /\ calls[c].pc = "rejected" =>
                   /\ config.onError =>
                          /\ calls[c].errors # <<>>
                          /\ \A i \in 1..Len(calls[c].errors) :
                                 calls[c].errors[i] = calls[c].neterr
                   /\ LatestHandled(c) => getAccessToken = Undefined

\* A network failure handled while the token of an earlier call was held.
C7_Witness ==
    /\ config.onError
    /\ handled = <<1, 2>>
    /\ WellFormed(calls[1].resp)
    /\ calls[2].neterr = [name |-> "TypeError", message |-> "Failed to fetch"]
    /\ calls[2].pc = "rejected"
    /\ calls[2].errors = <<calls[2].neterr>>
    /\ getAccessToken = Undefined

(***************************************************************************)
(* C8.  When the refresh() performed by init() resolves, init() invokes    *)
(* exactly one of onLoginSuccess and onLoginRequired (each when supplied), *)
(* exactly once: onLoginSuccess if a token is held at the moment init()    *)
(* resumes, onLoginRequired otherwise.  So, with no other outcome handled  *)
(* in between, a 200 with a valid token gives onLoginSuccess and a 401     *)
(* gives onLoginRequired.  Before init() resumes it has invoked neither.   *)
(***************************************************************************)
Count(b) == IF b THEN 1 ELSE 0

C8_InitInvokesOneLoginCallback ==
    /\ [](\A c \in Calls :
            /\ calls[c].loginSuccess + calls[c].loginRequired <= 1
            /\ calls[c].ipc # "resolved" =>
                   calls[c].loginSuccess + calls[c].loginRequired = 0)
    /\ [][\A c \in Calls :
            (calls[c].ipc = "awaiting" /\ calls[c].pc = "resolved"
                /\ calls'[c].ipc # "awaiting") =>
                /\ calls'[c].ipc = "resolved"
                /\ Truthy(accessToken) =>
                       /\ calls'[c].loginSuccess = Count(config.onLoginSuccess)
                       /\ calls'[c].loginRequired = 0
                /\ ~Truthy(accessToken) =>
                       /\ calls'[c].loginRequired = Count(config.onLoginRequired)
                       /\ calls'[c].loginSuccess = 0
                /\ (LatestHandled(c) /\ WellFormed(calls[c].resp)) =>
                       calls'[c].loginSuccess = Count(config.onLoginSuccess)
                /\ (LatestHandled(c) /\ calls[c].resp.status = 401) =>
                       calls'[c].loginRequired = Count(config.onLoginRequired)
       ]_vars

\* One init() that ended in onLoginSuccess and one that ended in onLoginRequired.
C8_Witness ==
    /\ config.onLoginSuccess
    /\ config.onLoginRequired
    /\ calls[1].kind = "init" /\ calls[1].ipc = "resolved"
    /\ WellFormed(calls[1].resp)
    /\ calls[1].loginSuccess = 1 /\ calls[1].loginRequired = 0
    /\ calls[2].kind = "init" /\ calls[2].ipc = "resolved"
    /\ calls[2].resp.status = 401
    /\ calls[2].loginSuccess = 0 /\ calls[2].loginRequired = 1

(***************************************************************************)
(* C9.  When two refresh() calls are in flight together, each issues its   *)
(* own request, each response is handled on its own (a call resolves       *)
(* exactly when its own response is a 401 or carries a valid token), and   *)
(* the in-memory token is the one determined by the response handled last, *)
(* whatever the order in which the calls were started.                     *)
(***************************************************************************)
TokenOf(r) == IF WellFormed(r) THEN r.body.accessToken ELSE Undefined

RequestsOf(c) == {i \in 1..Len(requests) : requests[i].call = c}

C9_LastHandledResponseWins ==
    /\ \A c \in Calls : Cardinality(RequestsOf(c)) = Count(Started(c))
    /\ \A c \in Calls :
           Handled(c) =>
               /\ calls[c].pc \in {"resolved", "rejected"}
               /\ calls[c].pc = "resolved"
                      <=> (calls[c].resp.status = 401 \/ WellFormed(calls[c].resp))
    /\ handled # <<>> => accessToken = TokenOf(calls[Last(handled)].resp)

\* The call started second was handled first; the token is that of the call
\* started first, whose response was handled last.
C9_Witness ==
    /\ handled = <<2, 1>>
    /\ calls[1].resp.body.accessToken = Str("tok1")
    /\ calls[2].resp.body.accessToken = Str("tok2")
    /\ Len(requests) = 2
    /\ accessToken = Str("tok1")

(***************************************************************************)
(* C10.  The stored accessToken is written only by refresh(): it is        *)
(* undefined after construction, which issues no request; a step changes   *)
(* it only when it is the handling of the outcome of a refresh() call;     *)
(* login() and logout() leave it unchanged and issue no refresh request.   *)
(* (getAccessToken() is a read of the field.)                              *)
(***************************************************************************)
C10_OnlyRefreshWritesToken ==
    /\ (accessToken = Undefined /\ requests = <<>>)
    /\ [][/\ hostLog' # hostLog =>
                 /\ accessToken' = accessToken
                 /\ requests' = requests
                 /\ calls' = calls
          /\ accessToken' # accessToken =>
                 \E c \in Calls :
                     /\ Started(c)
                     /\ ~Handled(c)
                     /\ handled' = Append(handled, c)
       ]_vars

\* login() or logout() has run on an instance that holds a token.
C10_Witness ==
    /\ hostLog # <<>>
    /\ Truthy(accessToken)
    /\ handled # <<>>

(***************************************************************************)
(* C11.  logout() invokes onLogout (when supplied) exactly once, and       *)
(* before the redirect; the redirect goes to exactly {baseUrl}/auth/logout *)
(* (the default base URL when none was configured); the step issues no     *)
(* request and waits for no call in flight.                                *)
(***************************************************************************)
ExpectedBaseUrl == IF config.baseUrl = "" THEN "https://bkper.app" ELSE config.baseUrl

ExpectedLogoutUrl == ExpectedBaseUrl \o "/auth/logout"

IsLogoutRedirect(e) == e.ev = "assign" /\ e.url = ExpectedLogoutUrl

C11_LogoutNotifiesThenRedirects ==
    /\ [](\A i \in 1..Len(hostLog) :
            /\ hostLog[i].ev = "onLogout" =>
                   /\ config.onLogout
                   /\ i < Len(hostLog)
                   /\ IsLogoutRedirect(hostLog[i + 1])
            /\ (IsLogoutRedirect(hostLog[i]) /\ config.onLogout) =>
                   /\ i > 1
                   /\ hostLog[i - 1].ev = "onLogout"
                   /\ i > 2 => hostLog[i - 2].ev = "assign"
            /\ (IsLogoutRedirect(hostLog[i]) /\ ~config.onLogout) =>
                   \A j \in 1..Len(hostLog) : hostLog[j].ev # "onLogout")
    /\ [][(\E i \in 1..Len(hostLog') : i > Len(hostLog) /\ hostLog'[i].ev = "onLogout")
            => /\ IsLogoutRedirect(Last(hostLog'))
               /\ requests' = requests
               /\ calls' = calls
       ]_vars

\* logout() ran, with onLogout supplied, while the request of a call was in flight.
C11_Witness ==
    /\ config.onLogout
    /\ hostLog = <<OnLogout, Assign(ExpectedLogoutUrl)>>
    /\ calls[1].pc = "fetching"
    /\ Len(requests) = 1

(***************************************************************************)
(* C12.  login() redirects exactly once, to                                *)
(* {baseUrl}/auth/login?returnUrl=<URL-encoded page URL> followed by one   *)
(* &key=<URL-encoded value> pair per entry the supplier returns, in order, *)
(* and by nothing when the supplier is absent or returns an empty mapping. *)
(* The expected strings are written out for the inputs of the model.       *)
(***************************************************************************)
ExpectedReturnUrl ==
    CASE location = Href -> "http%3A%2F%2Flocalhost%3A3000%2Fapp"
      [] location = HrefWithQuery ->
             "https%3A%2F%2Fapp.example.com%2Fbooks%3Fq%3Da%20b%26p%3D2%23top"

ExpectedLoginParams ==
    CASE ~config.getAdditionalAuthParams -> ""
      [] config.params = NoParams -> ""
      [] config.params = SingleParam -> "&customToken=abc123"
      [] config.params = CustomParams -> "&customToken=abc123&next=a%20b%26c~"

ExpectedLoginUrl ==
    ExpectedBaseUrl \o "/auth/login?returnUrl=" \o ExpectedReturnUrl
        \o ExpectedLoginParams

C12_LoginRedirectsToLoginUrl ==
    /\ [](\A i \in 1..Len(hostLog) :
            hostLog[i].ev = "assign" =>
                \/ IsLogoutRedirect(hostLog[i])
                \/ hostLog[i] = Assign(ExpectedLoginUrl))
    /\ [](NavCount < MaxNav => ENABLED login)
    /\ [][login => /\ hostLog' = Append(hostLog, Assign(ExpectedLoginUrl))
                   /\ requests' = requests
                   /\ calls' = calls
       ]_vars

\* login() ran with a supplier of two entries, from a page URL with a query.
C12_Witness ==
    /\ config.getAdditionalAuthParams
    /\ config.params = CustomParams
    /\ location = HrefWithQuery
    /\ hostLog = <<Assign(ExpectedLoginUrl)>>
    /\ Last(hostLog).url # ExpectedLogoutUrl

\* login() ran where the supplier returns an empty mapping.
C12_WitnessEmptyMapping ==
    /\ config.getAdditionalAuthParams
    /\ config.params = NoParams
    /\ hostLog = <<Assign(ExpectedBaseUrl \o "/auth/login?returnUrl=" \o ExpectedReturnUrl)>>

(***************************************************************************)
(* C13.  When the refresh() performed by init() rejects, init() invokes    *)
(* onError (when supplied) and neither onLoginSuccess nor onLoginRequired; *)
(* and for one init() call at most one of the three kinds of callback      *)
(* (onLoginSuccess, onLoginRequired, onError) is ever invoked.             *)
(***************************************************************************)
OutcomeKinds(c) ==
    Count(calls[c].loginSuccess > 0) + Count(calls[c].loginRequired > 0)
        + Count(calls[c].errors # <<>>)

C13_InitFailureReportsOnlyError ==
    \A c \in Calls :
        calls[c].kind = "init" =>
            /\ OutcomeKinds(c) <= 1
            /\ calls[c].pc \in {"rejecting", "rejected"} =>
                   /\ calls[c].loginSuccess = 0
                   /\ calls[c].loginRequired = 0
            /\ (calls[c].pc = "rejected" /\ calls[c].ipc = "resolved") =>
                   /\ config.onError => calls[c].errors # <<>>
                   /\ \A i \in 1..Len(calls[c].errors) :
                          calls[c].errors[i] = calls[c].reason

\* An init() whose refresh was rejected for a 500 has returned, with all three
\* callbacks supplied, after an earlier init() had ended in onLoginSuccess.
C13_Witness ==
    /\ config.onError /\ config.onLoginSuccess /\ config.onLoginRequired
    /\ calls[1].kind = "init" /\ calls[1].loginSuccess = 1
    /\ calls[2].kind = "init"
    /\ calls[2].resp.status = 500
    /\ calls[2].pc = "rejected"
    /\ calls[2].ipc = "resolved"
    /\ calls[2].errors # <<>>
    /\ calls[2].loginSuccess = 0 /\ calls[2].loginRequired = 0

(***************************************************************************)
(* C14.  Right after construction no request has been issued, no redirect  *)
(* made and no callback invoked; and getAccessToken() returns undefined in *)
(* every state in which no refresh() has yet succeeded (been answered 200  *)
(* with a valid token and handled).                                        *)
(***************************************************************************)
Succeeded(c) ==
    Handled(c) /\ calls[c].pc = "resolved" /\ WellFormed(calls[c].resp)

C14_ConstructionIsInert ==
    /\ /\ requests = <<>>
       /\ hostLog = <<>>
       /\ \A c \in Calls : calls[c] = NoCall
       /\ getAccessToken = Undefined
    /\ []((\A c \in Calls : ~Succeeded(c)) => getAccessToken = Undefined)

\* One refresh() has failed and one is about to succeed: its valid body is
\* received but not handled yet, and no token is held.
C14_Witness ==
    /\ handled = <<1>>
    /\ calls[1].resp.status = 500
    /\ calls[2].pc = "parsing"
    /\ WellFormed(calls[2].resp)
    /\ getAccessToken = Undefined

(***************************************************************************)
(* C15.  Once a refresh() has been answered 200 with a valid token and the *)
(* response has been handled, the page has a cookie 'already-logged' whose *)
(* value is 'true'.                                                        *)
(***************************************************************************)
C15_ValidRefreshSetsMarker ==
    \A c \in Calls :
        Succeeded(c) =>
            /\ ALREADY_LOGGED \in DOMAIN cookies
            /\ cookies[ALREADY_LOGGED] = "true"

(***************************************************************************)
(* C16.  hasLoggedInBefore() returns true when the page has the            *)
(* 'already-logged' cookie and false when it has not, whatever the         *)
(* in-memory token is.                                                     *)
(***************************************************************************)
C16_HasLoggedInBeforeReadsMarker ==
    hasLoggedInBefore = Returns(Bool(ALREADY_LOGGED \in DOMAIN cookies))

(***************************************************************************)
(* C17.  An init() whose own refresh response is a 200 with a valid token  *)
(* invokes onLoginSuccess, and one whose own response is a 401 invokes     *)
(* onLoginRequired, whatever other outcomes are handled before init()      *)
(* checks the token.                                                       *)
(***************************************************************************)
InitReturned(c) ==
    calls[c].kind = "init" /\ calls[c].pc = "resolved" /\ calls[c].ipc = "resolved"

C17_InitReportsOwnResponse ==
    \A c \in Calls :
        InitReturned(c) =>
            /\ WellFormed(calls[c].resp) =>
                   /\ calls[c].loginSuccess = Count(config.onLoginSuccess)
                   /\ calls[c].loginRequired = 0
            /\ calls[c].resp.status = 401 =>
                   /\ calls[c].loginRequired = Count(config.onLoginRequired)
                   /\ calls[c].loginSuccess = 0

(***************************************************************************)
(* C17, amended.  init() reports the outcome that was handled last before  *)
(* it resumes: onLoginSuccess when that outcome is a 200 with a valid      *)
(* token, onLoginRequired otherwise.  That outcome is init()'s own when no *)
(* other call's outcome is handled in between, and the other call's when   *)
(* one is, whatever init()'s own response was.                             *)
(***************************************************************************)
C17_InitReportsLastHandledOutcome ==
    [][\A c \in Calls :
         (calls[c].ipc = "awaiting" /\ calls[c].pc = "resolved"
             /\ calls'[c].ipc # "awaiting") =>
             /\ handled # <<>>
             /\ Handled(c)
             /\ InitReturned(c)'
             /\ WellFormed(calls[Last(handled)].resp) =>
                    /\ calls'[c].loginSuccess = Count(config.onLoginSuccess)
                    /\ calls'[c].loginRequired = 0
                    /\ calls'[c].checked = calls[Last(handled)].resp.body.accessToken
             /\ ~WellFormed(calls[Last(handled)].resp) =>
                    /\ calls'[c].loginRequired = Count(config.onLoginRequired)
                    /\ calls'[c].loginSuccess = 0
                    /\ calls'[c].checked = Undefined
    ]_vars

\* The 401 of a refresh() was handled between the handling of init()'s valid
\* 200 and init()'s token check: init() ended in onLoginRequired.
C17_Witness ==
    /\ config.onLoginSuccess /\ config.onLoginRequired
    /\ handled = <<1, 2>>
    /\ InitReturned(1)
    /\ WellFormed(calls[1].resp)
    /\ calls[2].kind = "refresh"
    /\ calls[2].resp.status = 401
    /\ calls[1].loginSuccess = 0
    /\ calls[1].loginRequired = 1

(***************************************************************************)
(* C18.  For a single refresh() call: once it has settled, it has rejected *)
(* exactly when onError (when supplied) was invoked in it, and then        *)
(* exactly once, with the rejection error; and when it has rejected, and   *)
(* no other call has settled since, the stored token is undefined.  This   *)
(* for every way the call can fail, a failure of getAdditionalAuthParams   *)
(* or of the parsing of the body included.                                 *)
(***************************************************************************)
C18_RejectsIffOnErrorOnce ==
    \A c \in Calls :
        calls[c].kind = "refresh" =>
            /\ calls[c].pc = "rejected" =>
                   /\ config.onError => calls[c].errors = <<calls[c].reason>>
                   /\ LatestHandled(c) => accessToken = Undefined
            /\ calls[c].pc = "resolved" => calls[c].errors = <<>>

(***************************************************************************)
(* C19.  Each refresh() call (init()'s included) issues exactly one        *)
(* request, a POST with credentials included to {baseUrl}/auth/refresh     *)
(* (carrying the supplier's parameters, if any, as its query string), and  *)
(* settles exactly once; no outcome makes the client issue a request       *)
(* again, so n calls have issued exactly n requests.                       *)
(***************************************************************************)
ExpectedRefreshQuery ==
    CASE ~config.getAdditionalAuthParams -> ""
      [] config.params = NoParams -> ""
      [] config.params = SingleParam -> "?customToken=abc123"
      [] config.params = CustomParams -> "?customToken=abc123&next=a+b%26c%7E"

ExpectedRefreshUrl == ExpectedBaseUrl \o "/auth/refresh" \o ExpectedRefreshQuery

Settled(c) == calls[c].pc \in {"resolved", "rejected"}

C20_StoreThenNotifyThenResolve ==
    /\ [](\A c \in Calls :
            (WellFormed(calls[c].resp) /\ config.onTokenRefresh) =>
                /\ calls[c].pc = "parsing" =>
                       calls[c].tokenRefresh = <<>> /\ calls[c].tokenSeen = <<>>
                /\ calls[c].pc = "resolved" =>
                       /\ calls[c].tokenRefresh = <<calls[c].resp.body.accessToken>>
                       /\ calls[c].tokenSeen = <<calls[c].resp.body.accessToken>>)
    /\ [][\A c \in Calls :
            (calls[c].pc = "parsing" /\ calls'[c].pc = "resolved") =>
                /\ getAccessToken' = calls[c].resp.body.accessToken
                /\ calls'[c].tokenSeen = calls'[c].tokenRefresh
       ]_vars

\* A refresh() answered with tok2 resolved while tok1 was held: onTokenRefresh
\* received tok2 and read tok2, not tok1.
C20_Witness ==
    /\ config.onTokenRefresh
    /\ handled = <<1, 2>>
    /\ calls[1].resp.body.accessToken = Str("tok1")
    /\ calls[2].resp.body.accessToken = Str("tok2")
    /\ calls[2].pc = "resolved"
    /\ calls[2].tokenSeen = <<Str("tok2")>>
    /\ calls[1].tokenSeen = <<Str("tok1")>>

(***************************************************************************)
(* C21.  In every reachable state a defined accessToken is a non-empty     *)
(* string, equal to the accessToken field of a 200 response that this      *)
(* instance has handled; and the field goes from undefined to defined only *)
(* in the step that handles such a response, to the token it carries.      *)
(***************************************************************************)
C21_TokenComesFromHandledResponse ==
    /\ [](accessToken # Undefined =>
            /\ TypeOf(accessToken) = "string"
            /\ accessToken.v # ""
            /\ \E c \in Calls :
                   /\ Handled(c)
                   /\ calls[c].resp.status = 200
                   /\ calls[c].resp.body.parses
                   /\ ~calls[c].resp.body.isNull
                   /\ calls[c].resp.body.accessToken = accessToken)
    /\ [][(accessToken = Undefined /\ accessToken' # Undefined) =>
             \E c \in Calls :
                 /\ calls[c].pc = "parsing"
                 /\ calls[c].resp.status = 200
                 /\ calls'[c].pc = "resolved"
                 /\ calls'[c].resp = calls[c].resp
                 /\ handled' = Append(handled, c)
                 /\ accessToken' = calls[c].resp.body.accessToken
       ]_vars

\* The token of the second response is held, after the first call was answered
\* with a body whose accessToken is a number and the field stayed undefined.
C21_Witness ==
    /\ handled = <<1, 2>>
    /\ calls[1].resp.body = Obj(Num("123"))
    /\ calls[1].pc = "rejected"
    /\ calls[2].resp.body = Obj(Str("tok2"))
    /\ accessToken = Str("tok2")

(***************************************************************************)
(* C22.  Once the request of a refresh() or init() call has completed or   *)
(* failed, the call eventually settles (for init(): returns).  While the   *)
(* request is pending the call stays as it is: it leaves that position     *)
(* only by an answer or a failure of the request (no timeout, no           *)
(* cancellation), and the token changes only in a step that settles a call *)
(* whose request has completed, never on account of the pending call.      *)
(***************************************************************************)
RequestDone(c) == Started(c) /\ calls[c].pc # "fetching"

Returned(c) == Settled(c) /\ calls[c].ipc # "awaiting"

C22_SettlesOnceRequestCompletes ==
    /\ \A c \in Calls : RequestDone(c) ~> Returned(c)
    /\ [][/\ \A c \in Calls :
                 calls[c].pc = "fetching" =>
                     \/ calls'[c] = calls[c]
                     \/ calls'[c].resp # NoResponse
                     \/ calls'[c].neterr # NoError
          /\ accessToken' # accessToken =>
                 \E d \in Calls :
                     /\ ~Settled(d)
                     /\ Settled(d)'
                     /\ RequestDone(d)'
       ]_vars

\* A call has returned after its request failed, while the request of the
\* other call is still pending and the token it found is still held.
C22_Witness ==
    /\ handled = <<2, 1>>
    /\ WellFormed(calls[2].resp)
    /\ calls[2].kind = "init" /\ Returned(2)
    /\ calls[1].neterr # NoError /\ Returned(1)
    /\ accessToken = Undefined

\* The request of a call is pending while the token of an earlier call is held.
C22_WitnessPending ==
    /\ calls[1].pc = "resolved"
    /\ calls[2].pc = "fetching"
    /\ accessToken = Str("tok1")

(***************************************************************************)
(* C23.  When onTokenRefresh throws while a 200 response with a valid      *)
(* token is handled: the token was stored and passed to the callback, the  *)
(* catch handler clears it again, onError (when supplied) is invoked with  *)
(* the thrown error, and the promise rejects with that error (unless       *)
(* onError throws an error of its own), so getAccessToken() returns        *)
(* undefined although the response carried a valid token (until another    *)
(* call's response is handled).                                            *)
(***************************************************************************)
\* A valid response whose handling did not resolve: onTokenRefresh threw.
CallbackThrew(c) ==
    WellFormed(calls[c].resp) /\ calls[c].pc \in {"rejecting", "rejected"}

C23_ThrowingOnTokenRefreshClearsToken ==
    /\ [](\A c \in Calls :
            CallbackThrew(c) =>
                /\ config.onTokenRefresh
                /\ calls[c].tokenRefresh = <<calls[c].resp.body.accessToken>>
                /\ calls[c].pc = "rejecting" => calls[c].reason \in HostErrors
                /\ calls[c].pc = "rejected" =>
                       /\ config.onError =>
                              /\ calls[c].errors # <<>>
                              /\ calls[c].errors[1] \in HostErrors
                       /\ calls[c].reason \notin OnErrorFailures =>
                              /\ calls[c].reason \in HostErrors
                              /\ config.onError => calls[c].errors[1] = calls[c].reason
                       /\ (LatestHandled(c) /\ Quiescent) => getAccessToken = Undefined)
    /\ [][\A c \in Calls :
            /\ (~CallbackThrew(c) /\ CallbackThrew(c)') =>
                   getAccessToken' = calls[c].resp.body.accessToken
            /\ (CallbackThrew(c) /\ calls[c].pc = "rejecting"
                    /\ calls'[c].pc = "rejected") =>
                   getAccessToken' = Undefined
       ]_vars

\* onTokenRefresh threw on tok1: onError received the thrown error, the call
\* rejected with it, and no token is held.
C23_Witness ==
    /\ config.onError
    /\ calls[1].kind = "refresh"
    /\ calls[1].resp.body = Obj(Str("tok1"))
    /\ calls[1].pc = "rejected"
    /\ calls[1].tokenRefresh = <<Str("tok1")>>
    /\ calls[1].errors = <<NewError("host function failed")>>
    /\ calls[1].reason = NewError("host function failed")
    /\ LatestHandled(1)
    /\ getAccessToken = Undefined

(***************************************************************************)
(* C24.  On every failure path of refresh() the stored token is cleared    *)
(* before onError is invoked and before the rejection can be observed:     *)
(* getAccessToken() returned undefined during every onError invocation of  *)
(* the call, and when the call has rejected, and nothing else has been     *)
(* handled since, getAccessToken() returns undefined.                      *)
(***************************************************************************)
C24_TokenClearedBeforeOnError ==
    \A c \in Calls :
        calls[c].pc = "rejected" =>
            /\ \A i \in 1..Len(calls[c].errorSeen) : calls[c].errorSeen[i] = Undefined
            /\ (LatestHandled(c) /\ Quiescent) => getAccessToken = Undefined

=============================================================================
